---- MODULE Spec2Model ----
(***************************************************************************)
(* Model of tictactui's multiplayer game: one shared GameSession, the      *)
(* process-wide SessionManager waiting slot, and the two bubbletea models  *)
(* (views) attached to the session by handleSSHSession.  Every handler of  *)
(* model.Update is one action, except the "r" key, whose two critical      *)
(* sections (resetGame's and the RestartRequested write) are two steps,    *)
(* because the session lock is released between them.                      *)
(*                                                                         *)
(* Spec, FairSpec  the game of two views on one session, any keys          *)
(* ScriptSpec      the same game along fixed sequences of key presses      *)
(* PairSpec        the matchmaker alone, any number of participants        *)
(* RulesSpec       checkWinner and the placement's evaluation, every input *)
(* LocalSpec       the three single-player programs, side by side          *)
(* ProgramSpec     the program in either mode: the server, on any keys or  *)
(*                 on a script, or the single-player programs              *)
(***************************************************************************)
EXTENDS Integers, Sequences, FiniteSets, TLC

\* ---------------------------------------------------------------- constants
PlayerX == "X"
PlayerO == "O"
Draw == "draw"
Empty == ""

BoardSize == 3

\* Durations, in milliseconds.
TickerInterval == 100
DisconnectTimeout == 5000

\* ------------------------------------------------------------------- bounds
\* Key presses handled over both views in one behaviour.
MaxKeys == 7
\* The modelled clock advances by this many tick periods at a time.
TicksPerClockStep == 10
ClockStep == TicksPerClockStep * TickerInterval
\* Participants that reach the matchmaker in one behaviour.
MaxParticipants == 4

\* -------------------------------------------------------------------- types
Idx == 0 .. (BoardSize - 1)
Views == {1, 2}
Other(v) == 3 - v

Participants == 1 .. MaxParticipants

\* The nil *GameSession.
Nil == 0

\* No script: the participants press any keys.
NoScript == << >>

\* The zero time.Time (disconnectTimer.IsZero()).
ZeroTime == -1
\* firstObserved before the view has seen PlayerDisconnected.
Never == ZeroTime

coord(r, c) == [row |-> r, col |-> c]

\* nil slice of coords
NoCells == << >>

\* ------------------------------------------------------------ pure functions
createEmptyBoard == [y \in Idx |-> [x \in Idx |-> Empty]]

copyBoard(board) == [y \in Idx |-> [x \in Idx |-> board[y][x]]]

RowOf(board, player, y) ==
    board[y][0] = player /\ board[y][1] = player /\ board[y][2] = player

ColOf(board, player, x) ==
    board[0][x] = player /\ board[1][x] = player /\ board[2][x] = player

\* The row (column) the for loop returns at: the first one that matches.
FirstRow(board, player) ==
    CHOOSE y \in Idx : RowOf(board, player, y)
                       /\ \A j \in Idx : j < y => ~RowOf(board, player, j)

FirstCol(board, player) ==
    CHOOSE x \in Idx : ColOf(board, player, x)
                       /\ \A j \in Idx : j < x => ~ColOf(board, player, j)

\* checkWinner with the column scan ahead of the row scan (the faulty variant
\* C14 is tested against).
checkWinnerColumnsFirst(board, player) ==
    IF \E x \in Idx : ColOf(board, player, x)
    THEN LET x == FirstCol(board, player)
         IN  << coord(0, x), coord(1, x), coord(2, x) >>
    ELSE IF \E y \in Idx : RowOf(board, player, y)
    THEN LET y == FirstRow(board, player)
         IN  << coord(y, 0), coord(y, 1), coord(y, 2) >>
    ELSE IF board[0][0] = player /\ board[1][1] = player /\ board[2][2] = player
    THEN << coord(0, 0), coord(1, 1), coord(2, 2) >>
    ELSE IF board[0][2] = player /\ board[1][1] = player /\ board[2][0] = player
    THEN << coord(0, 2), coord(1, 1), coord(2, 0) >>
    ELSE NoCells

checkWinner(board, player) ==
    IF \E y \in Idx : RowOf(board, player, y)
    THEN LET y == FirstRow(board, player)
         IN  << coord(y, 0), coord(y, 1), coord(y, 2) >>
    ELSE IF \E x \in Idx : ColOf(board, player, x)
    THEN LET x == FirstCol(board, player)
         IN  << coord(0, x), coord(1, x), coord(2, x) >>
    ELSE IF board[0][0] = player /\ board[1][1] = player /\ board[2][2] = player
    THEN << coord(0, 0), coord(1, 1), coord(2, 2) >>
    ELSE IF board[0][2] = player /\ board[1][1] = player /\ board[2][0] = player
    THEN << coord(0, 2), coord(1, 1), coord(2, 0) >>
    ELSE NoCells

\* An isDraw that never reports a draw (the faulty variant C27 is tested
\* against).
isDrawNever(board) == FALSE

isDraw(board) == \A y \in Idx : \A x \in Idx : board[y][x] # Empty

\* CurrentPlayer (0 or 1) as the symbol the tick shows.
SymbolOf(cp) == IF cp = 0 THEN PlayerX ELSE PlayerO

\* -------------------------------------------------------------------- locks
\* A sync.RWMutex, with the goroutines holding it.  A view's event loop is the
\* goroutine v; the goroutine watching its connection is Watcher(v).
NoHolder == 0
Watcher(v) == 0 - v

\* The zero RWMutex.
FreeLock == [writer |-> NoHolder, readers |-> {}]

\* Lock() returns at once; RLock() returns at once.
CanLock(mx) == mx.writer = NoHolder /\ mx.readers = {}
CanRLock(mx) == mx.writer = NoHolder

Locked(mx, h) == [mx EXCEPT !.writer = h]

\* An Unlock that is never called (the faulty variant C24 is tested against).
UnlockSkipped(mx) == mx

Unlocked(mx) == [mx EXCEPT !.writer = NoHolder]
RLocked(mx, h) == [mx EXCEPT !.readers = @ \cup {h}]

\* An RUnlock that is never called (the faulty variant C19 is tested against).
RUnlockSkipped(mx, h) == mx

RUnlocked(mx, h) == [mx EXCEPT !.readers = @ \ {h}]

\* -------------------------------------------------------------------- state
VARIABLES
    gameSession,     \* the shared GameSession (fields as in the struct)
    mutex,           \* gameSession.mutex
    smMutex,         \* sessionManager.mutex
    waitingSession,  \* sessionManager.waitingSession: TRUE iff it points to gameSession
    m,               \* m[v]: the bubbletea model of view v
    status,          \* status[v]: "absent", "running" or "exited" (program returned)
    connOpen,        \* connOpen[v]: the SSH session context of v is not yet done
    tickPending,     \* tickPending[v]: a tea.Tick command of v is outstanding
    pc,              \* pc[v]: "idle", or "setflag" inside the "r" handler
    now,             \* the clock, in milliseconds
    firstObserved,   \* history: clock at the first tick of v that saw PlayerDisconnected
    keys,            \* key presses handled so far
    script,          \* the key presses of a scripted run (NoScript: any key)
    lastOp,          \* history: the handler that ran last, and its view (see Op)
    \* The matchmaker on its own, with any number of arriving participants:
    arrival,         \* arrival[p]: where participant p is in handleSSHSession
    sessions,        \* the GameSessions allocated so far, in order
    waitingPtr,      \* sessionManager.waitingSession: an index of sessions, or Nil
    paired,          \* paired[p]: the model handleSSHSession returns to p
    pairLog,         \* history: the pairing critical sections, in order
    \* The rules on their own:
    probe,           \* one call of checkWinner or of the placement's evaluation
    \* The single-player programs, all three fed the same key presses:
    local,           \* local[variant]: the bubbletea model of that program
    localRunning     \* FALSE once the programs have returned (tea.Quit)

\* The variables of the game of two views on one session.
gameVars == << gameSession, mutex, waitingSession, m, status, connOpen, tickPending, pc,
               now, firstObserved, keys, script >>

\* The variables of the matchmaker on its own.
pairVars == << arrival, sessions, waitingPtr, paired, pairLog >>

\* The variables of the single-player programs.
localVars == << local, localRunning >>

vars == << gameVars, smMutex, lastOp, pairVars, probe, localVars >>

\* The variables the game of two views leaves alone.
otherVars == << pairVars, probe, localVars >>

\* lastOp names the handler only where its effect leaves no trace in the
\* program's own state: a rejected placement changes nothing, and an exit
\* through the disconnect timeout ends like any other exit.
Recorded == {"init", "rejected", "tickTimeout"}

Op(name, v) ==
    IF name \in Recorded THEN [op |-> name, view |-> v] ELSE [op |-> "other", view |-> 0]

\* The zero GameSession: nothing is allocated before the first participant.
NoSession ==
    [ Board |-> createEmptyBoard,
      CurrentPlayer |-> 0,
      Winner |-> Empty,
      WinningCells |-> NoCells,
      PlayerCount |-> 0,
      PlayerDisconnected |-> FALSE,
      RestartRequested |-> FALSE ]

initialModel ==
    [ board |-> createEmptyBoard,
      cursorX |-> 0,
      cursorY |-> 0,
      currentPlayer |-> PlayerX,
      winner |-> Empty,
      winningCells |-> NoCells,
      playerSymbol |-> Empty,
      isMyTurn |-> FALSE,
      waitingForPlayer |-> FALSE,
      disconnectTimer |-> ZeroTime ]

\* handleSSHSession before its first statement has run for anyone.
PairInit ==
    /\ arrival = [p \in Participants |-> "absent"]
    /\ sessions = << >>
    /\ waitingPtr = Nil
    /\ paired = [p \in Participants |-> [gameSession |-> Nil]]
    /\ pairLog = << >>

\* No call is being looked at.
NoProbe == [call |-> "none"]

\* The three single-player programs: the multiplayer program started without
\* "ssh" (its model has no session), the refactored single-player program, and
\* the original one.
Variants == {"standalone", "refactored", "original"}

\* The literal [][]string{{"", "", ""}, {"", "", ""}, {"", "", ""}}.
EmptyLiteral == [y \in Idx |-> [x \in Idx |-> ""]]

\* initialModel() of the refactored program.
initialModelRefactored ==
    [ board |-> EmptyLiteral,
      cursorX |-> 0,
      cursorY |-> 0,
      currentPlayer |-> PlayerX,
      winner |-> Empty,
      winningCells |-> NoCells ]

\* initialModel() of the original program.
initialModelOriginal ==
    [ board |-> EmptyLiteral,
      cursorX |-> 0,
      cursorY |-> 0,
      currentPlayer |-> "X",
      winner |-> "",
      winningCells |-> NoCells ]

\* main() without "ssh" (and the main() of either single-player program):
\* tea.NewProgram(initialModel()) is running.
LocalInit ==
    /\ local = [var \in Variants |->
                   CASE var = "standalone" -> initialModel
                     [] var = "refactored" -> initialModelRefactored
                     [] var = "original" -> initialModelOriginal]
    /\ localRunning = TRUE

\* main() with "ssh": the server is started, and no single-player program.
NoLocalGame == << >>
ServerOnly ==
    /\ local = NoLocalGame
    /\ localRunning = FALSE

\* The server before anyone has connected.
GameInit ==
    /\ gameSession = NoSession
    /\ mutex = FreeLock
    /\ smMutex = FreeLock
    /\ waitingSession = FALSE
    /\ m = [v \in Views |-> initialModel]
    /\ status = [v \in Views |-> "absent"]
    /\ connOpen = [v \in Views |-> FALSE]
    /\ tickPending = [v \in Views |-> FALSE]
    /\ pc = [v \in Views |-> "idle"]
    /\ now = 0
    /\ firstObserved = [v \in Views |-> Never]
    /\ keys = 0
    /\ lastOp = Op("init", 0)

Init ==
    /\ GameInit
    /\ script = NoScript
    /\ PairInit
    /\ probe = NoProbe
    /\ ServerOnly

\* The program started without "ssh".
LocalModeInit ==
    /\ GameInit
    /\ script = NoScript
    /\ PairInit
    /\ probe = NoProbe
    /\ LocalInit

\* The model of a view whose program has returned: its memory is released, so
\* no field of it is program state any longer.
Released == initialModel

\* A view whose Update can be handed a message.
Ready(v) == status[v] = "running" /\ pc[v] = "idle"


\* ------------------------------------------------------------------ pairing
\* The literal with PlayerCount left at its zero value (the faulty variant
\* C12 is tested against).
NewSessionUncounted ==
    [NoSession EXCEPT !.Board = createEmptyBoard, !.CurrentPlayer = 0]

\* The GameSession literal of the first-player branch.
NewSession ==
    [NoSession EXCEPT !.Board = createEmptyBoard, !.CurrentPlayer = 0, !.PlayerCount = 1]

\* handleSSHSession, pairing under sessionManager.mutex, then Init's first tick.
\* Views are numbered in arrival order.
Connect(v) ==
    /\ status[v] = "absent"
    /\ \A u \in Views : u < v => status[u] # "absent"
    /\ CanLock(smMutex)
    /\ smMutex' = Unlocked(Locked(smMutex, v))
    /\ IF ~waitingSession
       THEN /\ m' = [m EXCEPT ![v] = [initialModel EXCEPT !.playerSymbol = PlayerX,
                                                           !.isMyTurn = TRUE,
                                                           !.waitingForPlayer = TRUE]]
            /\ gameSession' = NewSession
            /\ mutex' = FreeLock
            /\ waitingSession' = TRUE
       ELSE /\ m' = [m EXCEPT ![v] = [initialModel EXCEPT !.playerSymbol = PlayerO,
                                                           !.isMyTurn = FALSE,
                                                           !.waitingForPlayer = FALSE]]
            /\ gameSession' = [gameSession EXCEPT !.PlayerCount = 2]
            /\ mutex' = mutex
            /\ waitingSession' = FALSE
    /\ status' = [status EXCEPT ![v] = "running"]
    /\ connOpen' = [connOpen EXCEPT ![v] = TRUE]
    /\ tickPending' = [tickPending EXCEPT ![v] = TRUE]
    /\ UNCHANGED << pc, now, firstObserved, keys, script, otherVars >>
    /\ lastOp' = Op("connect", v)

\* The disconnect goroutine: the SSH session's context is done, so the flag is
\* set under the session lock.  The view's program ends with its connection
\* (after the handler it is in, if any).
ConnectionClosed(v) ==
    /\ connOpen[v]
    /\ connOpen' = [connOpen EXCEPT ![v] = FALSE]
    /\ CanLock(mutex)
    /\ mutex' = Unlocked(Locked(mutex, Watcher(v)))
    /\ gameSession' = [gameSession EXCEPT !.PlayerDisconnected = TRUE]
    /\ status' = [status EXCEPT ![v] = IF pc[v] = "idle" THEN "exited" ELSE @]
    /\ tickPending' = [tickPending EXCEPT ![v] = IF pc[v] = "idle" THEN FALSE ELSE @]
    /\ m' = [m EXCEPT ![v] = IF pc[v] = "idle" THEN Released ELSE @]
    /\ UNCHANGED << waitingSession, pc, now, firstObserved, keys, script, smMutex,
                    otherVars >>
    /\ lastOp' = Op("closed", v)

\* --------------------------------------------------------------------- tick
\* Synced without the isMyTurn assignment (the faulty variant C22 is tested
\* against).
SyncedKeepingTurn(mv, s) ==
    [mv EXCEPT !.board = copyBoard(s.Board),
               !.currentPlayer = SymbolOf(s.CurrentPlayer),
               !.winner = s.Winner,
               !.winningCells = s.WinningCells,
               !.waitingForPlayer = (s.PlayerCount < 2)]

\* Lines 219-228: the projection a tick copies out of the session.
Synced(mv, s) ==
    [mv EXCEPT !.board = copyBoard(s.Board),
               !.currentPlayer = SymbolOf(s.CurrentPlayer),
               !.winner = s.Winner,
               !.winningCells = s.WinningCells,
               !.isMyTurn = (mv.playerSymbol = SymbolOf(s.CurrentPlayer)),
               !.waitingForPlayer = (s.PlayerCount < 2)]

\* TimedOut with the comparison off by one: the countdown ends at the grace
\* period, not past it (the faulty variant C10 is tested against).
TimedOutAtGrace(timer, clock) == clock - timer >= DisconnectTimeout

\* time.Since(m.disconnectTimer) > DisconnectTimeout
TimedOut(timer, clock) == clock - timer > DisconnectTimeout

\* The handler's first statement is RLock.
TickEnabled(v) == Ready(v) /\ tickPending[v] /\ CanRLock(mutex)

\* RestartRequested is observed: the handler returns tea.ClearScreen.
TickObservesRestart(v) ==
    /\ TickEnabled(v)
    /\ gameSession.RestartRequested
    /\ m' = [m EXCEPT ![v] = Synced(m[v], gameSession)]
    /\ tickPending' = [tickPending EXCEPT ![v] = FALSE]
    /\ mutex' = RUnlocked(RLocked(mutex, v), v)
    /\ UNCHANGED << gameSession, waitingSession, status, connOpen, pc, now,
                    firstObserved, keys, script, smMutex, otherVars >>
    /\ lastOp' = Op("tickRestart", v)

\* The disconnect countdown has run out: the handler returns tea.Quit.
TickTimesOut(v) ==
    /\ TickEnabled(v)
    /\ ~gameSession.RestartRequested
    /\ gameSession.PlayerDisconnected
    /\ m[v].disconnectTimer # ZeroTime
    /\ TimedOut(m[v].disconnectTimer, now)
    /\ m' = [m EXCEPT ![v] = Released]
    /\ status' = [status EXCEPT ![v] = "exited"]
    /\ tickPending' = [tickPending EXCEPT ![v] = FALSE]
    /\ mutex' = RUnlocked(RLocked(mutex, v), v)
    /\ UNCHANGED << gameSession, waitingSession, connOpen, pc, now, firstObserved, keys,
                    script, smMutex, otherVars >>
    /\ lastOp' = Op("tickTimeout", v)

\* Every other tick: sync, start the countdown if the disconnect is new, and
\* schedule the next tick.
TickContinues(v) ==
    /\ TickEnabled(v)
    /\ ~gameSession.RestartRequested
    /\ ~(/\ gameSession.PlayerDisconnected
         /\ m[v].disconnectTimer # ZeroTime
         /\ TimedOut(m[v].disconnectTimer, now))
    /\ m' = [m EXCEPT ![v] =
               [Synced(m[v], gameSession) EXCEPT !.disconnectTimer =
                   IF gameSession.PlayerDisconnected /\ @ = ZeroTime THEN now ELSE @]]
    /\ firstObserved' = [firstObserved EXCEPT ![v] =
                           IF gameSession.PlayerDisconnected /\ @ = Never THEN now ELSE @]
    /\ tickPending' = [tickPending EXCEPT ![v] = TRUE]
    /\ mutex' = RUnlocked(RLocked(mutex, v), v)
    /\ UNCHANGED << gameSession, waitingSession, status, connOpen, pc, now, keys,
                    script, smMutex, otherVars >>
    /\ lastOp' = Op("tick", v)

Tick(v) == TickObservesRestart(v) \/ TickTimesOut(v) \/ TickContinues(v)

\* Time passes.  The clock is read only against a running countdown, so its
\* passage is modelled only while some view's countdown has not yet run out.
AdvanceTime ==
    /\ \E v \in Views : /\ status[v] = "running"
                        /\ m[v].disconnectTimer # ZeroTime
                        /\ ~TimedOut(m[v].disconnectTimer, now)
    /\ now' = now + ClockStep
    /\ UNCHANGED << gameSession, mutex, waitingSession, m, status, connOpen, tickPending,
                    pc, firstObserved, keys, script, smMutex, otherVars >>
    /\ lastOp' = Op("time", 0)


\* --------------------------------------------------------------------- keys
\* Key presses one behaviour handles: the script's, or MaxKeys of any.
KeyLimit == IF script = NoScript THEN MaxKeys ELSE Len(script)

KeyEnabled(v) == Ready(v) /\ keys < KeyLimit

\* "ctrl+c", "q": tea.Quit, no lock taken.
QuitKey(v) ==
    /\ KeyEnabled(v)
    /\ keys' = keys + 1
    /\ status' = [status EXCEPT ![v] = "exited"]
    /\ tickPending' = [tickPending EXCEPT ![v] = FALSE]
    /\ m' = [m EXCEPT ![v] = Released]
    /\ UNCHANGED << gameSession, mutex, waitingSession, connOpen, pc, now, firstObserved,
                    script, smMutex, otherVars >>
    /\ lastOp' = Op("quit", v)

\* MoveCursor without the tests against the board's edges (the faulty variant
\* C29 is tested against).
MoveCursorUnclamped(mv, dir) ==
    CASE dir = "up" -> [mv EXCEPT !.cursorY = @ - 1]
      [] dir = "down" -> [mv EXCEPT !.cursorY = @ + 1]
      [] dir = "right" -> [mv EXCEPT !.cursorX = @ + 1]
      [] dir = "left" -> [mv EXCEPT !.cursorX = @ - 1]

\* The four cursor keys (len(m.board) and len(m.board[y]) are BoardSize).
MoveCursor(mv, dir) ==
    CASE dir = "up" ->
           IF mv.cursorY > 0 THEN [mv EXCEPT !.cursorY = @ - 1] ELSE mv
      [] dir = "down" ->
           IF mv.cursorY < BoardSize - 1
           THEN [mv EXCEPT !.cursorY = @ + 1,
                           !.cursorX = IF @ >= BoardSize THEN BoardSize - 1 ELSE @]
           ELSE mv
      [] dir = "right" ->
           IF mv.cursorX < BoardSize - 1 THEN [mv EXCEPT !.cursorX = @ + 1] ELSE mv
      [] dir = "left" ->
           IF mv.cursorX > 0 THEN [mv EXCEPT !.cursorX = @ - 1] ELSE mv

Directions == {"up", "down", "right", "left"}

CursorKey(v) ==
    /\ KeyEnabled(v)
    /\ keys' = keys + 1
    /\ \E dir \in Directions : m' = [m EXCEPT ![v] = MoveCursor(m[v], dir)]
    /\ UNCHANGED << gameSession, mutex, waitingSession, status, connOpen, tickPending, pc,
                    now, firstObserved, script, smMutex, otherVars >>
    /\ lastOp' = Op("cursor", v)

\* resetGame, local part (lines 132-138).
ResetLocal(mv) ==
    [mv EXCEPT !.board = createEmptyBoard,
               !.currentPlayer = PlayerX,
               !.winner = Empty,
               !.winningCells = NoCells,
               !.cursorX = 0,
               !.cursorY = 0,
               !.isMyTurn = (mv.playerSymbol = PlayerX),
               !.disconnectTimer = ZeroTime]

\* resetGame, the session's critical section (lines 142-149).
ResetSession(s) ==
    [s EXCEPT !.Board = createEmptyBoard,
              !.CurrentPlayer = 0,
              !.Winner = Empty,
              !.WinningCells = NoCells,
              !.PlayerDisconnected = FALSE,
              !.RestartRequested = FALSE]

\* "r", first critical section: m.resetGame().
RestartKey(v) ==
    /\ KeyEnabled(v)
    /\ keys' = keys + 1
    /\ m' = [m EXCEPT ![v] = ResetLocal(m[v])]
    /\ CanLock(mutex)
    /\ mutex' = Unlocked(Locked(mutex, v))
    /\ gameSession' = ResetSession(gameSession)
    /\ pc' = [pc EXCEPT ![v] = "setflag"]
    /\ UNCHANGED << waitingSession, status, connOpen, tickPending, now, firstObserved,
                    script, smMutex, otherVars >>
    /\ lastOp' = Op("restart", v)

\* "r", second critical section: RestartRequested = true, then tea.ClearScreen.
RestartSetFlag(v) ==
    /\ status[v] = "running"
    /\ pc[v] = "setflag"
    /\ CanLock(mutex)
    /\ mutex' = Unlocked(Locked(mutex, v))
    /\ gameSession' = [gameSession EXCEPT !.RestartRequested = TRUE]
    /\ pc' = [pc EXCEPT ![v] = "idle"]
    /\ status' = [status EXCEPT ![v] = IF connOpen[v] THEN @ ELSE "exited"]
    /\ tickPending' = [tickPending EXCEPT ![v] = IF connOpen[v] THEN @ ELSE FALSE]
    /\ m' = [m EXCEPT ![v] = IF connOpen[v] THEN @ ELSE Released]
    /\ UNCHANGED << waitingSession, connOpen, now, firstObserved, keys, script, smMutex,
                    otherVars >>
    /\ lastOp' = Op("setflag", v)

\* Rejected without the occupied-cell break (the faulty variant C5 is tested
\* against).
RejectedIgnoringCell(mv) ==
    \/ mv.winner # Empty
    \/ ~mv.isMyTurn

\* "enter", " ": the three breaks, all decided on the view's own projection.
Rejected(mv) ==
    \/ mv.winner # Empty
    \/ ~mv.isMyTurn
    \/ mv.board[mv.cursorY][mv.cursorX] # Empty

\* SessionPlace with the draw test ahead of the winner test (the faulty
\* variant C15 is tested against).
SessionPlaceDrawFirst(s, sym, y, x) ==
    LET b == [s.Board EXCEPT ![y][x] = sym]
        cells == checkWinner(b, sym)
    IN  IF isDraw(b)
        THEN [s EXCEPT !.Board = b, !.Winner = Draw]
        ELSE IF cells # NoCells
        THEN [s EXCEPT !.Board = b, !.Winner = sym, !.WinningCells = cells]
        ELSE [s EXCEPT !.Board = b, !.CurrentPlayer = 1 - @]

\* Lines 333-344: the session after playerSymbol is written at (y, x).
SessionPlace(s, sym, y, x) ==
    LET b == [s.Board EXCEPT ![y][x] = sym]
        cells == checkWinner(b, sym)
    IN  IF cells # NoCells
        THEN [s EXCEPT !.Board = b, !.Winner = sym, !.WinningCells = cells]
        ELSE IF isDraw(b)
        THEN [s EXCEPT !.Board = b, !.Winner = Draw]
        ELSE [s EXCEPT !.Board = b, !.CurrentPlayer = 1 - @]

PlaceRejected(v) ==
    /\ KeyEnabled(v)
    /\ Rejected(m[v])
    /\ keys' = keys + 1
    /\ UNCHANGED << gameSession, mutex, waitingSession, m, status, connOpen, tickPending,
                    pc, now, firstObserved, script, smMutex, otherVars >>
    /\ lastOp' = Op("rejected", v)

PlaceApplied(v) ==
    /\ KeyEnabled(v)
    /\ ~Rejected(m[v])
    /\ CanLock(mutex)
    /\ mutex' = Unlocked(Locked(mutex, v))
    /\ keys' = keys + 1
    /\ m' = [m EXCEPT ![v].board[m[v].cursorY][m[v].cursorX] = m[v].playerSymbol]
    /\ gameSession' = SessionPlace(gameSession, m[v].playerSymbol,
                                   m[v].cursorY, m[v].cursorX)
    /\ UNCHANGED << waitingSession, status, connOpen, tickPending, pc, now, firstObserved,
                    script, smMutex, otherVars >>
    /\ lastOp' = Op("placed", v)

PlaceKey(v) == PlaceRejected(v) \/ PlaceApplied(v)

\* ------------------------------------------------------------ specification
Next ==
    \/ \E v \in Views : Connect(v)
    \/ \E v \in Views : ConnectionClosed(v)
    \/ \E v \in Views : Tick(v)
    \/ \E v \in Views : QuitKey(v)
    \/ \E v \in Views : CursorKey(v)
    \/ \E v \in Views : RestartKey(v)
    \/ \E v \in Views : RestartSetFlag(v)
    \/ \E v \in Views : PlaceKey(v)
    \/ AdvanceTime

Spec == Init /\ [][Next]_vars

\* What the runtime guarantees: an outstanding tea.Tick is delivered, a handler
\* that has started runs to its end, and time passes.  Nothing obliges a
\* participant to press a key, to connect or to drop the connection.
Fairness ==
    /\ \A v \in Views : WF_vars(Tick(v))
    /\ \A v \in Views : WF_vars(RestartSetFlag(v))
    /\ WF_vars(AdvanceTime)

FairSpec == Spec /\ Fairness


\* ---------------------------------------------------------------- matchmaker
\* handleSSHSession's pairing for any number of arriving participants, one
\* step per statement group: sessionManager.mutex.Lock(), the branch taken,
\* sessionManager.mutex.Unlock(); then the goroutine watching the connection.

\* The model the first-player branch builds.
FirstPlayerModel ==
    [initialModel EXCEPT !.playerSymbol = PlayerX,
                         !.isMyTurn = TRUE,
                         !.waitingForPlayer = TRUE]

\* The model the second-player branch builds.
SecondPlayerModel ==
    [initialModel EXCEPT !.playerSymbol = PlayerO,
                         !.isMyTurn = FALSE,
                         !.waitingForPlayer = FALSE]

\* The slot is left pointing at the session that was joined (the faulty
\* variant C11 is tested against).
SlotKeptAfterJoin(ptr) == ptr

\* sessionManager.waitingSession = nil
SlotAfterJoin(ptr) == Nil

\* One line of pairLog: who was paired, with which session, as which symbol,
\* and the session's PlayerCount when the branch was done.
LogEntry(p, ptr, sym, count) ==
    [who |-> p, session |-> ptr, symbol |-> sym, count |-> count]

PairLock(p) ==
    /\ arrival[p] = "absent"
    /\ CanLock(smMutex)
    /\ smMutex' = Locked(smMutex, p)
    /\ arrival' = [arrival EXCEPT ![p] = "locked"]
    /\ UNCHANGED << sessions, waitingPtr, paired, pairLog, gameVars, lastOp, probe, localVars >>

\* sessionManager.waitingSession == nil: first player.
PairCreate(p) ==
    /\ arrival[p] = "locked"
    /\ waitingPtr = Nil
    /\ LET ptr == Len(sessions) + 1
       IN  /\ sessions' = Append(sessions, NewSession)
           /\ waitingPtr' = ptr
           /\ paired' = [paired EXCEPT ![p] = [gameSession |-> ptr,
                                               model |-> FirstPlayerModel]]
           /\ pairLog' = Append(pairLog,
                                LogEntry(p, ptr, PlayerX, sessions'[ptr].PlayerCount))
    /\ arrival' = [arrival EXCEPT ![p] = "branched"]
    /\ UNCHANGED << smMutex, gameVars, lastOp, probe, localVars >>

\* Otherwise: second player.
PairJoin(p) ==
    /\ arrival[p] = "locked"
    /\ waitingPtr # Nil
    /\ sessions' = [sessions EXCEPT ![waitingPtr].PlayerCount = 2]
    /\ paired' = [paired EXCEPT ![p] = [gameSession |-> waitingPtr,
                                        model |-> SecondPlayerModel]]
    /\ waitingPtr' = SlotAfterJoin(waitingPtr)
    /\ pairLog' = Append(pairLog, LogEntry(p, waitingPtr, PlayerO,
                                           sessions'[waitingPtr].PlayerCount))
    /\ arrival' = [arrival EXCEPT ![p] = "branched"]
    /\ UNCHANGED << smMutex, gameVars, lastOp, probe, localVars >>

PairUnlock(p) ==
    /\ arrival[p] = "branched"
    /\ smMutex' = Unlocked(smMutex)
    /\ arrival' = [arrival EXCEPT ![p] = "live"]
    /\ UNCHANGED << sessions, waitingPtr, paired, pairLog, gameVars, lastOp, probe, localVars >>

\* The participant's connection ends: its goroutine sets PlayerDisconnected on
\* the session it was given, and touches nothing else.
PairDisconnect(p) ==
    /\ arrival[p] = "live"
    /\ sessions' = [sessions EXCEPT ![paired[p].gameSession].PlayerDisconnected = TRUE]
    /\ arrival' = [arrival EXCEPT ![p] = "gone"]
    /\ UNCHANGED << smMutex, waitingPtr, paired, pairLog, gameVars, lastOp, probe, localVars >>

PairNext ==
    \/ \E p \in Participants : PairLock(p)
    \/ \E p \in Participants : PairCreate(p)
    \/ \E p \in Participants : PairJoin(p)
    \/ \E p \in Participants : PairUnlock(p)
    \/ \E p \in Participants : PairDisconnect(p)

PairSpec == Init /\ [][PairNext]_vars


\* ------------------------------------------------------------- scripted run
\* The game of two views along a fixed sequence of key presses, with the ticks
\* falling anywhere between them: a whole game is more key presses than
\* MaxKeys allows to explore freely.  Nobody disconnects in a script; in the
\* restart scripts the two critical sections of each "r" are separate steps.
Key(v, k) == [view |-> v, key |-> k]

\* X takes the left column and the rest of the bottom row; O takes the four
\* cells that remain, the centre last.
FullBoardScript ==
    << Key(1, "enter"),
       Key(2, "right"), Key(2, "enter"), Key(2, "right"), Key(2, "enter"),
       Key(2, "down"), Key(2, "enter"),
       Key(1, "down"), Key(1, "enter"), Key(1, "down"), Key(1, "enter"),
       Key(1, "right"), Key(1, "enter"), Key(1, "right"), Key(1, "enter"),
       Key(2, "left"), Key(2, "enter") >>

\* Both views press "r", one right after the other, in either order, after a
\* first placement intent; no key follows.
RestartRaceScripts ==
    { << Key(1, "enter"), Key(1, "r"), Key(2, "r") >>,
      << Key(1, "enter"), Key(2, "r"), Key(1, "r") >> }

\* A game played by the rules to a full board without a line:
\*     X O X
\*     X O O
\*     O X X
DrawScript ==
    << Key(1, "enter"),
       Key(2, "right"), Key(2, "enter"),
       Key(1, "right"), Key(1, "right"), Key(1, "enter"),
       Key(2, "down"), Key(2, "enter"),
       Key(1, "down"), Key(1, "left"), Key(1, "left"), Key(1, "enter"),
       Key(2, "right"), Key(2, "enter"),
       Key(1, "down"), Key(1, "right"), Key(1, "enter"),
       Key(2, "down"), Key(2, "left"), Key(2, "left"), Key(2, "enter"),
       Key(1, "right"), Key(1, "enter") >>

Scripts == {FullBoardScript, DrawScript} \cup RestartRaceScripts

ScriptInit ==
    /\ GameInit
    /\ script \in Scripts
    /\ PairInit
    /\ probe = NoProbe
    /\ ServerOnly

ScriptedPlace ==
    /\ keys < Len(script)
    /\ script[keys + 1].key = "enter"
    /\ PlaceKey(script[keys + 1].view)

ScriptedCursor ==
    /\ keys < Len(script)
    /\ script[keys + 1].key \in Directions
    /\ CursorKey(script[keys + 1].view)
    /\ m'[script[keys + 1].view] =
           MoveCursor(m[script[keys + 1].view], script[keys + 1].key)

\* The scripted "r": its first critical section; the second one follows as a
\* step of its own, so that the two views' critical sections interleave.
ScriptedRestart ==
    /\ keys < Len(script)
    /\ script[keys + 1].key = "r"
    /\ RestartKey(script[keys + 1].view)

ScriptNext ==
    \/ \E v \in Views : Connect(v)
    \/ \E v \in Views : TickContinues(v)
    \/ \E v \in Views : TickObservesRestart(v)
    \/ ScriptedPlace
    \/ ScriptedCursor
    \/ ScriptedRestart
    \/ \E v \in Views : RestartSetFlag(v)

ScriptSpec == ScriptInit /\ [][ScriptNext]_vars


\* -------------------------------------------------------------- single player
\* The three single-player programs.  Their cursor cases are the same text
\* (MoveCursor); their restart and placement cases are translated one by one.

\* A switchPlayer that leaves the turn where it is (the faulty variant C26 is
\* tested against).
switchPlayerStuck(mv) == mv

\* switchPlayer (the same text in the multiplayer and the refactored program).
switchPlayer(mv) ==
    [mv EXCEPT !.currentPlayer = IF @ = PlayerX THEN PlayerO ELSE PlayerX]

\* PlaceStandalone writing m.playerSymbol, as the multiplayer branch does (the
\* faulty variant C28 is tested against).
PlaceStandaloneAsSymbol(mv) ==
    IF mv.winner # Empty THEN mv
    ELSE IF mv.board[mv.cursorY][mv.cursorX] # Empty THEN mv
    ELSE LET b == [mv.board EXCEPT ![mv.cursorY][mv.cursorX] = mv.playerSymbol]
             cells == checkWinner(b, mv.currentPlayer)
         IN  IF cells # NoCells
             THEN [mv EXCEPT !.board = b, !.winner = mv.currentPlayer,
                             !.winningCells = cells]
             ELSE IF isDraw(b)
             THEN [mv EXCEPT !.board = b, !.winner = Draw]
             ELSE switchPlayer([mv EXCEPT !.board = b])

\* Standalone: "r" is m.resetGame() with m.gameSession == nil, that is
\* ResetLocal.  "enter" with m.gameSession == nil:
PlaceStandalone(mv) ==
    IF mv.winner # Empty THEN mv
    ELSE IF mv.board[mv.cursorY][mv.cursorX] # Empty THEN mv
    ELSE LET b == [mv.board EXCEPT ![mv.cursorY][mv.cursorX] = mv.currentPlayer]
             cells == checkWinner(b, mv.currentPlayer)
         IN  IF cells # NoCells
             THEN [mv EXCEPT !.board = b, !.winner = mv.currentPlayer,
                             !.winningCells = cells]
             ELSE IF isDraw(b)
             THEN [mv EXCEPT !.board = b, !.winner = Draw]
             ELSE switchPlayer([mv EXCEPT !.board = b])

\* resetGame of the refactored program without its last statement (the faulty
\* variant C20 is tested against).
resetGameKeepingCursor(mv) ==
    [mv EXCEPT !.board = EmptyLiteral,
               !.currentPlayer = PlayerX,
               !.winner = Empty,
               !.winningCells = NoCells]

\* resetGame of the refactored program.
resetGameRefactored(mv) ==
    [mv EXCEPT !.board = EmptyLiteral,
               !.currentPlayer = PlayerX,
               !.winner = Empty,
               !.winningCells = NoCells,
               !.cursorX = 0,
               !.cursorY = 0]

\* "enter" of the refactored program.
PlaceRefactored(mv) ==
    IF mv.winner # Empty THEN mv
    ELSE IF mv.board[mv.cursorY][mv.cursorX] # Empty THEN mv
    ELSE LET b == [mv.board EXCEPT ![mv.cursorY][mv.cursorX] = mv.currentPlayer]
             cells == checkWinner(b, mv.currentPlayer)
         IN  IF cells # NoCells
             THEN [mv EXCEPT !.board = b, !.winner = mv.currentPlayer,
                             !.winningCells = cells]
             ELSE IF isDraw(b)
             THEN [mv EXCEPT !.board = b, !.winner = Draw]
             ELSE switchPlayer([mv EXCEPT !.board = b])

\* "r" of the original program: the reset is written out in the case.
ResetOriginal(mv) ==
    [mv EXCEPT !.board = EmptyLiteral,
               !.currentPlayer = "X",
               !.winner = "",
               !.winningCells = NoCells,
               !.cursorX = 0,
               !.cursorY = 0]

\* "enter" of the original program: the turn swap is written out in the case.
PlaceOriginal(mv) ==
    IF mv.winner # "" THEN mv
    ELSE IF mv.board[mv.cursorY][mv.cursorX] # "" THEN mv
    ELSE LET b == [mv.board EXCEPT ![mv.cursorY][mv.cursorX] = mv.currentPlayer]
             cells == checkWinner(b, mv.currentPlayer)
         IN  IF cells # NoCells
             THEN [mv EXCEPT !.board = b, !.winner = mv.currentPlayer,
                             !.winningCells = cells]
             ELSE IF isDraw(b)
             THEN [mv EXCEPT !.board = b, !.winner = "draw"]
             ELSE [mv EXCEPT !.board = b,
                             !.currentPlayer = IF @ = "X" THEN "O" ELSE "X"]

\* lastOp of a single-player step: a restart is recorded with the outcome it
\* started from, any other key is not.
LocalOp(name) ==
    IF name = "restart"
    THEN [op |-> "localRestart", view |-> 0, was |-> local["refactored"].winner]
    ELSE Op("other", 0)

LocalCursor ==
    /\ localRunning
    /\ \E dir \in Directions :
          local' = [var \in Variants |-> MoveCursor(local[var], dir)]
    /\ lastOp' = LocalOp("cursor")
    /\ UNCHANGED << localRunning, gameVars, smMutex, pairVars, probe >>

LocalRestart ==
    /\ localRunning
    /\ local' = [var \in Variants |->
                    CASE var = "standalone" -> ResetLocal(local[var])
                      [] var = "refactored" -> resetGameRefactored(local[var])
                      [] var = "original" -> ResetOriginal(local[var])]
    /\ lastOp' = LocalOp("restart")
    /\ UNCHANGED << localRunning, gameVars, smMutex, pairVars, probe >>

LocalPlace ==
    /\ localRunning
    /\ local' = [var \in Variants |->
                    CASE var = "standalone" -> PlaceStandalone(local[var])
                      [] var = "refactored" -> PlaceRefactored(local[var])
                      [] var = "original" -> PlaceOriginal(local[var])]
    /\ lastOp' = LocalOp("place")
    /\ UNCHANGED << localRunning, gameVars, smMutex, pairVars, probe >>

\* "ctrl+c", "q": tea.Quit.
LocalQuit ==
    /\ localRunning
    /\ localRunning' = FALSE
    /\ lastOp' = LocalOp("quit")
    /\ UNCHANGED << local, gameVars, smMutex, pairVars, probe >>

LocalNext == LocalCursor \/ LocalRestart \/ LocalPlace \/ LocalQuit

LocalSpec == LocalModeInit /\ [][LocalNext]_vars


\* ------------------------------------------------------------- either mode
\* main(): with "ssh" the server, explored on any keys or along a script;
\* without it the single-player program.
ProgramInit == Init \/ ScriptInit \/ LocalModeInit

ProgramNext ==
    \/ local = NoLocalGame /\ script = NoScript /\ Next
    \/ local = NoLocalGame /\ script # NoScript /\ ScriptNext
    \/ LocalNext

ProgramSpec == ProgramInit /\ [][ProgramNext]_vars


\* --------------------------------------------------------------------- rules
\* checkWinner and the evaluation of a placement, each applied once to every
\* input: checkWinner to every board and either role; the placement to every
\* session with that board, an undecided outcome and two participants, either
\* symbol (on its turn) and every cell that is empty.
Cells == {Empty, PlayerX, PlayerO}
Boards == [Idx -> [Idx -> Cells]]

UndecidedSession(b, sym) ==
    [NoSession EXCEPT !.Board = b,
                      !.CurrentPlayer = IF sym = PlayerX THEN 0 ELSE 1,
                      !.PlayerCount = 2]

RulesInit ==
    /\ GameInit
    /\ script = NoScript
    /\ PairInit
    /\ probe \in {[call |-> "none", board |-> b] : b \in Boards}
    /\ ServerOnly

ApplyCheckWinner ==
    /\ probe.call = "none"
    /\ \E p \in {PlayerX, PlayerO} :
          probe' = [call |-> "checkWinner", board |-> probe.board, player |-> p,
                    result |-> checkWinner(probe.board, p)]
    /\ UNCHANGED << gameVars, smMutex, lastOp, pairVars, localVars >>

ApplyPlacement ==
    /\ probe.call = "none"
    /\ \E sym \in {PlayerX, PlayerO} : \E cy \in Idx : \E cx \in Idx :
          /\ probe.board[cy][cx] = Empty
          /\ probe' = [call |-> "place", session |-> UndecidedSession(probe.board, sym),
                       player |-> sym, y |-> cy, x |-> cx,
                       result |-> SessionPlace(UndecidedSession(probe.board, sym),
                                               sym, cy, cx)]
    /\ UNCHANGED << gameVars, smMutex, lastOp, pairVars, localVars >>

RulesNext == ApplyCheckWinner \/ ApplyPlacement

RulesSpec == RulesInit /\ [][RulesNext]_vars


\* ------------------------------------------------------------------- claims
\* C1: a placement is written to the session only when, at the moment of the
\* write, the session's turn is the placing role and the outcome is undecided.
C1_WriteOnlyOnSessionTurn ==
    [][\A v \in Views :
          PlaceApplied(v) =>
              /\ SymbolOf(gameSession.CurrentPlayer) = m[v].playerSymbol
              /\ gameSession.Winner = Empty]_vars

\* C2: no placement writes to a cell that is occupied in the session board.
C2_NoWriteToOccupiedCell ==
    [][\A v \in Views :
          PlaceApplied(v) =>
              gameSession.Board[m[v].cursorY][m[v].cursorX] = Empty]_vars

\* C3: once the session's outcome is decided, no placement intent changes the
\* session's board, outcome or winning line.
C3_DecidedOutcomeIsFinal ==
    [][\A v \in Views :
          (gameSession.Winner # Empty /\ PlaceKey(v)) =>
              /\ gameSession'.Board = gameSession.Board
              /\ gameSession'.Winner = gameSession.Winner
              /\ gameSession'.WinningCells = gameSession.WinningCells]_vars

\* C4: after an applied placement that does not end the game, the session's
\* turn is the role that did not place.
C4_TurnPassesToOtherRole ==
    [][\A v \in Views :
          (PlaceApplied(v) /\ gameSession'.Winner = Empty) =>
              SymbolOf(gameSession'.CurrentPlayer) # m[v].playerSymbol]_vars

\* C5: a placement intent that meets one of the three rejection conditions
\* (outcome decided, not the view's turn, cell occupied, each as the view sees
\* it) changes neither the session nor any view's projection.
C5_RejectionMutatesNothing ==
    [][\A v \in Views :
          (/\ PlaceKey(v)
           /\ \/ m[v].winner # Empty
              \/ ~m[v].isMyTurn
              \/ m[v].board[m[v].cursorY][m[v].cursorX] # Empty) =>
              (gameSession' = gameSession /\ m' = m)]_vars

\* C5 witness: a placement intent of the second view has just been rejected
\* because it was not its turn.
C5_Witness ==
    /\ lastOp = Op("rejected", 2)
    /\ status[1] = "running"
    /\ ~m[2].isMyTurn
    /\ m[2].board[m[2].cursorY][m[2].cursorX] = Empty

\* C6: once a view's restart intent has been processed (the "r" handler has
\* returned), every session field has its initial value and RestartRequested
\* is false.
C6_RestartLeavesInitialSession ==
    [][\A v \in Views :
          RestartSetFlag(v) =>
              /\ gameSession'.Board = createEmptyBoard
              /\ gameSession'.CurrentPlayer = 0
              /\ gameSession'.Winner = Empty
              /\ gameSession'.WinningCells = NoCells
              /\ ~gameSession'.PlayerDisconnected
              /\ ~gameSession'.RestartRequested]_vars

\* C8: every handled tick that does not end the view schedules the next tick.
C8_TickReschedules ==
    [][\A v \in Views :
          (Tick(v) /\ status'[v] = "running") => tickPending'[v]]_vars

\* C10: the countdown starts at the first tick on which the view observes
\* PlayerDisconnected, and the view leaves through the timeout only when more
\* than DisconnectTimeout has passed since that first observation.
C10_TimeoutNotBeforeGracePeriod ==
    [][\A v \in Views :
          /\ (firstObserved[v] = Never /\ firstObserved'[v] # Never) =>
                 /\ firstObserved'[v] = now
                 /\ m'[v].disconnectTimer = now
                 /\ gameSession.PlayerDisconnected
          /\ (m[v].disconnectTimer = ZeroTime /\ m'[v].disconnectTimer # ZeroTime) =>
                 /\ gameSession.PlayerDisconnected
                 /\ m'[v].disconnectTimer = now
          /\ TickTimesOut(v) =>
                 /\ firstObserved[v] # Never
                 /\ now - firstObserved[v] > DisconnectTimeout]_vars

\* C10 witness: a view has just left through the disconnect timeout.
C10_Witness ==
    \E v \in Views :
        /\ lastOp = Op("tickTimeout", v)
        /\ status[v] = "exited"
        /\ now - firstObserved[v] > DisconnectTimeout


\* C7: a restart request is consumed: once RestartRequested is set, it is
\* eventually cleared (granting the claim the case in which no view is left
\* running to clear it).
C7_RestartRequestIsConsumed ==
    gameSession.RestartRequested ~>
        (~gameSession.RestartRequested \/ \A v \in Views : status[v] # "running")

\* C9: when a participant's connection has ended and PlayerDisconnected is set,
\* the surviving view's control loop eventually terminates, from every
\* reachable state (granting the claim that no further key is pressed: a key
\* press ends the obligation).
C9_SurvivorTerminates ==
    \A v \in Views : \A k \in 0 .. MaxKeys :
        (/\ status[v] = "running"
         /\ status[Other(v)] = "exited"
         /\ ~connOpen[Other(v)]
         /\ gameSession.PlayerDisconnected
         /\ keys = k) ~> (status[v] # "running" \/ keys # k)


\* The participants handleSSHSession has given session i.
Members(i) == {p \in Participants : paired[p].gameSession = i}

\* C11: under any interleaving of arriving participants, the waiting slot
\* holds at most one session and that session has PlayerCount 1; every session
\* has at most two participants, exactly one of them X and at most one O; and
\* no participant is joined to a session that already has two.
C11_PairingKeepsSessionsWellFormed ==
    /\ [](/\ waitingPtr \in {Nil} \cup (1 .. Len(sessions))
          /\ waitingPtr # Nil => sessions[waitingPtr].PlayerCount = 1
          /\ \A i \in 1 .. Len(sessions) :
                /\ Cardinality(Members(i)) <= 2
                /\ Cardinality({p \in Members(i) :
                                   paired[p].model.playerSymbol = PlayerX}) = 1
                /\ Cardinality({p \in Members(i) :
                                   paired[p].model.playerSymbol = PlayerO}) <= 1)
    /\ [][\A p \in Participants :
             PairJoin(p) => Cardinality(Members(waitingPtr)) < 2]_vars

\* C11 witness: two sessions are full, and the participants were not paired
\* in the order of their numbers.
C11_Witness ==
    /\ Len(sessions) = 2
    /\ waitingPtr = Nil
    /\ \A i \in 1 .. 2 : Cardinality(Members(i)) = 2
    /\ pairLog[1].who # 1
    /\ \E p \in Participants : arrival[p] = "gone"

\* C12: in the order of the pairing critical sections, every odd call returns
\* X on a session no earlier call was given, with PlayerCount 1, and every
\* even call returns O on the session of the call before it, with
\* PlayerCount 2.
C12_PairingAlternates ==
    \A i \in 1 .. Len(pairLog) :
        IF i % 2 = 1
        THEN /\ pairLog[i].symbol = PlayerX
             /\ pairLog[i].count = 1
             /\ \A j \in 1 .. (i - 1) : pairLog[j].session # pairLog[i].session
        ELSE /\ pairLog[i].symbol = PlayerO
             /\ pairLog[i].count = 2
             /\ pairLog[i].session = pairLog[i - 1].session

\* C12 witness: a third call has started a new session after a full pair.
C12_Witness ==
    /\ Len(pairLog) >= 3
    /\ pairLog[3].symbol = PlayerX
    /\ pairLog[3].session # pairLog[1].session
    /\ \A p \in Participants : arrival[p] # "locked" /\ arrival[p] # "branched"

\* C13: the session's PlayerCount is the number of its participants whose
\* connection is live.
C13_PlayerCountIsLiveConnections ==
    gameSession.PlayerCount = Cardinality({v \in Views : connOpen[v]})

\* C17: no mark is written to the session board while the session has fewer
\* than two participants.
C17_NoWriteWhileWaiting ==
    [][\A v \in Views : PlaceApplied(v) => gameSession.PlayerCount = 2]_vars

\* C18: while the session board is empty, a placement intent of the second
\* participant (O) leaves it empty, so that the first mark on an empty board
\* is X's.
C18_SecondCannotOpen ==
    [][\A v \in Views :
          (/\ PlaceKey(v)
           /\ m[v].playerSymbol = PlayerO
           /\ gameSession.Board = createEmptyBoard) =>
              gameSession'.Board = createEmptyBoard]_vars

\* The eight lines in the order the scan meets them: rows top to bottom,
\* columns left to right, the main diagonal, the anti-diagonal.
ScanLine(i) ==
    IF i <= 3 THEN << coord(i - 1, 0), coord(i - 1, 1), coord(i - 1, 2) >>
    ELSE IF i <= 6 THEN << coord(0, i - 4), coord(1, i - 4), coord(2, i - 4) >>
    ELSE IF i = 7 THEN << coord(0, 0), coord(1, 1), coord(2, 2) >>
    ELSE << coord(0, 2), coord(1, 1), coord(2, 0) >>

\* Line i of board b holds three marks of player p.
Holds(b, p, i) == \A k \in 1 .. 3 : b[ScanLine(i)[k].row][ScanLine(i)[k].col] = p

HeldLines(b, p) == {i \in 1 .. 8 : Holds(b, p, i)}

\* C14: for every board and role, checkWinner returns a line exactly when some
\* row, column or diagonal holds three marks of the role, and the line it
\* returns is the first such line in scan order.
C14_CheckWinnerFindsFirstLine ==
    probe.call = "checkWinner" =>
        LET held == HeldLines(probe.board, probe.player)
        IN  IF held = {}
            THEN probe.result = NoCells
            ELSE probe.result =
                     ScanLine(CHOOSE i \in held : \A j \in held : i <= j)

\* C14 witness: the bottom row and the left column are both complete, and the
\* row was returned.
C14_Witness ==
    /\ probe.call = "checkWinner"
    /\ HeldLines(probe.board, probe.player) = {3, 4}
    /\ probe.result = ScanLine(3)

\* C15: a placement sets the outcome to Draw exactly when, with the mark
\* written, no cell is empty and the placing role has no complete line; a
\* placement that fills the board and completes a line gives the role the
\* win.
C15_DrawOnlyOnFullBoardWithoutLine ==
    probe.call = "place" =>
        LET b == [probe.session.Board EXCEPT ![probe.y][probe.x] = probe.player]
            full == \A cy \in Idx : \A cx \in Idx : b[cy][cx] # Empty
            line == HeldLines(b, probe.player) # {}
        IN  /\ probe.result.Winner = Draw <=> (full /\ ~line)
            /\ (full /\ line) => probe.result.Winner = probe.player

\* C15 witness: a mark on the last empty cell has ended the game in a draw.
C15_Witness ==
    /\ probe.call = "place"
    /\ probe.session.Board[probe.y][probe.x] = Empty
    /\ probe.result.Winner = Draw

\* C16: the session has a winning line exactly when its outcome is a win.
C16_WinningLineIffWon ==
    (gameSession.WinningCells # NoCells) <=> (gameSession.Winner \in {PlayerX, PlayerO})

\* C19: a running view can always take a quit intent (it is idle, or the
\* handler it is in can finish, whatever the other view does); the quit ends
\* the view in that one step and touches no lock; and a view that has exited,
\* by quit or by the disconnect timeout, holds the session lock neither as
\* writer nor as reader.
C19_QuitIsImmediateAndLockFree ==
    /\ [](\A v \in Views :
            /\ status[v] = "running" => (pc[v] = "idle" \/ ENABLED RestartSetFlag(v))
            /\ (Ready(v) /\ keys < KeyLimit) => ENABLED QuitKey(v)
            /\ status[v] = "exited" => (mutex.writer # v /\ v \notin mutex.readers))
    /\ [][\A v \in Views :
             QuitKey(v) => /\ status'[v] = "exited"
                           /\ mutex' = mutex
                           /\ smMutex' = smMutex]_vars

\* C19 witness: the first view has quit (both connections are still open, so
\* nobody has timed out) while the second was between the two critical
\* sections of its restart.
C19_Witness ==
    /\ status[1] = "exited"
    /\ connOpen[1]
    /\ connOpen[2]
    /\ status[2] = "running"
    /\ pc[2] = "setflag"
    /\ mutex = FreeLock

\* C20: in each single-player program a restart, from any reachable state,
\* yields exactly the initial state: an empty board, X to move, no winner, no
\* winning cells and the cursor at (0, 0), every other field as at the start.
C20_LocalRestartYieldsInitialState ==
    [][LocalRestart =>
          \A var \in Variants :
              /\ \A y \in Idx : \A x \in Idx : local'[var].board[y][x] = ""
              /\ local'[var].currentPlayer = "X"
              /\ local'[var].winner = ""
              /\ local'[var].winningCells = << >>
              /\ local'[var].cursorX = 0
              /\ local'[var].cursorY = 0
              /\ local'[var] = CASE var = "standalone" -> initialModel
                                  [] var = "refactored" -> initialModelRefactored
                                  [] var = "original" -> initialModelOriginal]_vars

\* C20 witness: a game played to a draw has just been restarted.
C20_Witness ==
    /\ lastOp = [op |-> "localRestart", view |-> 0, was |-> Draw]
    /\ localRunning
    /\ local["refactored"] = initialModelRefactored
    /\ local["original"] = initialModelOriginal
    /\ local["standalone"] = initialModel

\* C21: when the session's outcome is a win, the stored winning line is one of
\* the eight lines and its three cells hold the winner's mark in the session
\* board.
C21_WinningLineHoldsWinnersMarks ==
    gameSession.Winner \in {PlayerX, PlayerO} =>
        /\ \E i \in 1 .. 8 : gameSession.WinningCells = ScanLine(i)
        /\ \A k \in 1 .. Len(gameSession.WinningCells) :
              gameSession.Board[gameSession.WinningCells[k].row]
                               [gameSession.WinningCells[k].col] = gameSession.Winner

RaceOver ==
    /\ script \in RestartRaceScripts
    /\ keys = Len(script)
    /\ \A v \in Views : pc[v] = "idle"

\* C23: when both views request a restart one right after the other, then for
\* every interleaving of their reset and flag-setting critical sections, once
\* both handlers have returned the session is the one a single restart
\* produces (empty board, first role to move, no winner, no winning cells),
\* and once both views have taken the tick that observes the request, the
\* request is cleared.
C23_ConcurrentRestartIsSafe ==
    RaceOver =>
        /\ gameSession.Board = createEmptyBoard
        /\ gameSession.CurrentPlayer = 0
        /\ gameSession.Winner = Empty
        /\ gameSession.WinningCells = NoCells
        /\ (\A v \in Views : ~tickPending[v]) => ~gameSession.RestartRequested

\* The part of C23 about the session alone.
C23_SessionPart ==
    RaceOver =>
        /\ gameSession.Board = createEmptyBoard
        /\ gameSession.CurrentPlayer = 0
        /\ gameSession.Winner = Empty
        /\ gameSession.WinningCells = NoCells

\* C24: every handler that takes the session lock or the matchmaker lock has
\* released it when it returns, on every path (the tick's early returns
\* included): between any two handler steps both locks are free, so a handler
\* that needs a lock is never kept from taking it.
C24_HandlersReleaseLocks ==
    /\ mutex = FreeLock
    /\ smMutex = FreeLock
    /\ CanLock(mutex) /\ CanRLock(mutex) /\ CanLock(smMutex)

\* C24 witness: a view has taken the tick's early return on RestartRequested
\* (it is running with no tick scheduled) and the locks are free.
C24_Witness ==
    \E v \in Views :
        /\ status[v] = "running"
        /\ pc[v] = "idle"
        /\ ~tickPending[v]
        /\ gameSession.RestartRequested
        /\ mutex = FreeLock
        /\ smMutex = FreeLock

\* C25: a session whose first participant has disconnected does not stay in
\* the waiting slot, and no later participant is paired into it.
C25_NoPairingWithTheDeparted ==
    /\ [](waitingPtr # Nil => ~sessions[waitingPtr].PlayerDisconnected)
    /\ [][\A p \in Participants :
             PairJoin(p) => ~sessions[waitingPtr].PlayerDisconnected]_vars

\* The number of cells of board b that hold mark p.
CountMarks(b, p) == Cardinality({c \in Idx \X Idx : b[c[1]][c[2]] = p})

\* C26: in each single-player program the board holds as many X as O, or one
\* X more; and while the outcome is undecided, X is to move exactly when the
\* two counts are equal.
C26_LocalMarksAlternate ==
    \A var \in Variants :
        LET nx == CountMarks(local[var].board, PlayerX)
            no == CountMarks(local[var].board, PlayerO)
        IN  /\ nx - no \in {0, 1}
            /\ local[var].winner = Empty =>
                   (local[var].currentPlayer = PlayerX <=> nx = no)

\* C26 witness: in every program X has placed twice and O once, nothing is
\* decided, and O is to move.
C26_Witness ==
    \A var \in Variants :
        /\ CountMarks(local[var].board, PlayerX) = 2
        /\ CountMarks(local[var].board, PlayerO) = 1
        /\ local[var].winner = Empty
        /\ local[var].currentPlayer = PlayerO

\* What a single-player program shows of its state.
Shown(mv) ==
    << mv.board, mv.currentPlayer, mv.winner, mv.winningCells, mv.cursorX, mv.cursorY >>

\* C28: on every sequence of key presses the multiplayer program started
\* standalone, the refactored program and the original program hold the same
\* board, player to move, winner, winning cells and cursor after every step.
C28_VariantsAgree ==
    \A var \in Variants : Shown(local[var]) = Shown(local["original"])

\* C28 witness: the three programs have been through a win by O, found with
\* the cursor away from the origin.
C28_Witness ==
    \A var \in Variants :
        /\ local[var].winner = PlayerO
        /\ Len(local[var].winningCells) = BoardSize
        /\ local[var].cursorX # 0
        /\ local[var].cursorY # 0

\* No cell of board b is empty.
Full(b) == \A c \in Idx \X Idx : b[c[1]][c[2]] # Empty

\* C27: in every reachable state of a session and of a single-player game, a
\* full board has a decided outcome (so the game is decided by the ninth mark
\* at the latest).
C27_FullBoardIsDecided ==
    /\ Full(gameSession.Board) => gameSession.Winner # Empty
    /\ local # NoLocalGame =>
           \A var \in Variants : Full(local[var].board) => local[var].winner # Empty

\* C27 witness: the session's ninth mark, placed by the rules, has filled the
\* board without a line, and the outcome is a draw.
C27_Witness ==
    /\ script = DrawScript
    /\ Full(gameSession.Board)
    /\ CountMarks(gameSession.Board, PlayerX) = 5
    /\ CountMarks(gameSession.Board, PlayerO) = 4
    /\ gameSession.Winner = Draw
    /\ gameSession.WinningCells = NoCells

\* C29: whatever cursor keys, ticks and restarts it has handled, a view's
\* cursor is on the board, in the server's views and in each single-player
\* program.
C29_CursorStaysOnBoard ==
    /\ \A v \in Views : m[v].cursorX \in Idx /\ m[v].cursorY \in Idx
    /\ local # NoLocalGame =>
           \A var \in Variants : local[var].cursorX \in Idx /\ local[var].cursorY \in Idx

\* C29 witness: the first view, alone and on an empty board, has handled one
\* key press that left its cursor in the corner (0, 0): an "up" or a "left"
\* stopped at the edge.
C29_Witness ==
    /\ script = NoScript
    /\ status[1] = "running"
    /\ status[2] = "absent"
    /\ pc[1] = "idle"
    /\ keys = 1
    /\ m[1].cursorX = 0
    /\ m[1].cursorY = 0
    /\ gameSession.Board = createEmptyBoard
    /\ ~gameSession.RestartRequested

====
